---- MODULE Spec2Model ----
(***************************************************************************)
(* Model of the components of the Superteam Vietnam bot:                   *)
(*   - the confidence scorer, the gated query and add_document of          *)
(*     EnhancedRAGSystem (src/app/core/rag.py),                            *)
(*   - the skill matcher, handle_message and the tweet commands of         *)
(*     SuperteamBot (src/app/bots/telegram_bot.py),                        *)
(*   - the tweet drafts of TwitterManager (src/app/bots/twitter_bot.py).   *)
(*                                                                         *)
(* Floats are fixed-point integers: the float x is the integer x * Scale.  *)
(* Strings are sequences of character codes (ord), so that lower-casing,   *)
(* splitting, joining and sorting are computed, not assumed.               *)
(***************************************************************************)
EXTENDS Integers, Sequences, FiniteSets, TLC

VARIABLES
    pending,              \* the call that is about to run: "score", "query" or "none"
    op,                   \* the operation that ran last
    similarities,         \* argument of the _calculate_confidence call
    confidence,           \* its return value
    docs_and_scores,      \* what similarity_search_with_score returns to the query
    confidence_threshold, \* the query's confidence_threshold
    search_raises,        \* whether the vector store raises during the query
    llm,                  \* what chain.run does when the query invokes it
    chain_runs,           \* the contexts handed to chain.run during the query
    result,               \* the dictionary the query returned
    members_db,           \* the roster loaded at startup
    args,                 \* context.args of the /find command
    matches,              \* find_member's ranked match list
    reply,                \* what find_member replied
    more_skills,          \* the skills handle_callback parsed out of the button's data
    more_matches,         \* show_more_members' ranked match list
    more_reply,           \* what show_more_members replied
    draft_tweets,         \* TwitterManager.draft_tweets: the drafts by user_id
    client,               \* whether TwitterManager.client is set (not None)
    posted,               \* the statuses the last call handed to client.update_status
    last,                 \* the last TwitterManager call and the dictionary it returned
    submitted,            \* the text handed to that call: content or new_content
    suspended,            \* per user, the draft an improve_draft holds at its await
    admin_ids,            \* settings.admin_ids
    command,              \* the last tweet command, its sender and the kind of reply
    document,             \* the add_document call: the chunks of content, metadata
    caller_metadata,      \* the caller's metadata dictionary
    vector_store,         \* the texts and metadatas added to the vector store
    added,                \* what add_document returned
    message_reply         \* what handle_message replied: the answer and its indicators

ragInputs == <<docs_and_scores, confidence_threshold, search_raises, llm>>

ragVars == <<similarities, confidence, ragInputs, chain_runs, result>>

matchVars == <<members_db, args, matches, reply, more_skills, more_matches, more_reply>>

draftVars == <<draft_tweets, client, posted, last, submitted, suspended>>

commandVars == <<admin_ids, command>>

docVars == <<document, caller_metadata, vector_store, added>>

vars == <<pending, op, ragVars, matchVars, draftVars, commandVars, docVars, message_reply>>

(***************************************************************************)
(* Bounds and input sets                                                   *)
(***************************************************************************)
\* fixed-point scale: 1.0 is Scale
Scale == 10 ^ 4

\* longest similarity list handed to the scorer on its own
MaxSims == 3

\* k of the similarity search: at most TopK chunks come back
TopK == 3

\* similarity values 0.0, 0.5, 1.0, 1.2, 3.0 (a distance metric is not bounded by 1)
Sims == {0, 5000, 10000, 12000, 30000}

\* page contents of the chunks, abstracted to identifiers
PageContents == {1, 2}

\* the thresholds of the two call sites (0.6 and 0.8) and the degenerate 0.0
Thresholds == {0, 6000, 8000}

Space == 32

\* what the LLM chain may answer: "a", " a ", " " and ""
Responses == {<<97>>, <<Space, 97, Space>>, <<Space>>, <<>>}

\* chain.run either returns a response or raises
LlmOutcomes ==
    {[raises |-> TRUE, response |-> <<>>]}
        \cup {[raises |-> FALSE, response |-> r] : r \in Responses}

SeqsUpTo(S, n) == UNION {[1..k -> S] : k \in 0..n}

(***************************************************************************)
(* Confidence scorer                                                       *)
(***************************************************************************)
RECURSIVE ExpSeries(_, _, _)
\* Taylor series of exp at x (fixed point), terms k.. while they are non-zero
ExpSeries(x, k, term) ==
    IF term = 0 \/ k > 12 THEN 0
    ELSE term + ExpSeries(x, k + 1, (term * x) \div (k * Scale))

\* np.exp on one fixed-point value; exp(0) is exactly 1
Exp(x) == ExpSeries(x, 1, Scale)

\* a linspace whose single point is stop instead of start
MutLinspaceSingleStop(start, stop, num) ==
    [i \in 1..num |->
        IF i = num THEN stop
        ELSE start + ((i - 1) * (stop - start)) \div (num - 1)]

\* np.linspace(start, stop, num): num = 1 yields [start]; the last point is stop
Linspace(start, stop, num) ==
    [i \in 1..num |->
        IF num = 1 THEN start
        ELSE IF i = num THEN stop
        ELSE start + ((i - 1) * (stop - start)) \div (num - 1)]

\* weights that decay from the first entry: np.exp(np.linspace(0, -1, n))
MutWeightsBestFirst(n) ==
    LET pts == Linspace(0, -Scale, n) IN [i \in 1..n |-> Exp(pts[i])]

\* weights = np.exp(np.linspace(-1, 0, len(similarities)))
Weights(n) ==
    LET pts == Linspace(-Scale, 0, n) IN [i \in 1..n |-> Exp(pts[i])]

RECURSIVE SumSeq(_)
SumSeq(s) == IF s = <<>> THEN 0 ELSE Head(s) + SumSeq(Tail(s))

\* np.array(similarities) * weights
WeightedSimilarities(sims) ==
    LET w == Weights(Len(sims)) IN
    [i \in 1..Len(sims) |-> (sims[i] * w[i]) \div Scale]

\* np.sum in place of np.mean
MutMeanSum(a) == SumSeq(a)

\* float(np.mean(a))
Mean(a) == SumSeq(a) \div Len(a)

CalculateConfidence(sims) ==
    IF sims = <<>> THEN 0 ELSE Mean(WeightedSimilarities(sims))

\* one call of _calculate_confidence on its own
Score ==
    /\ pending = "score"
    /\ pending' = "none"
    /\ op' = "score"
    /\ confidence' = CalculateConfidence(similarities)
    /\ UNCHANGED <<similarities, ragInputs, chain_runs, result, matchVars, draftVars, commandVars, docVars, message_reply>>

(***************************************************************************)
(* EnhancedRAGSystem.query                                                 *)
(***************************************************************************)
RECURSIVE LStrip(_)
LStrip(s) == IF s # <<>> /\ Head(s) = Space THEN LStrip(Tail(s)) ELSE s

RECURSIVE RStrip(_)
RStrip(s) ==
    IF s # <<>> /\ s[Len(s)] = Space THEN RStrip(SubSeq(s, 1, Len(s) - 1)) ELSE s

\* str.strip()
Strip(s) == RStrip(LStrip(s))

NoResult == [answer |-> [kind |-> "none", text |-> <<>>], confidence |-> 0]

NotEnoughInfo == [answer |-> [kind |-> "not_enough_information", text |-> <<>>],
                  confidence |-> 0]

NotConfident(c) == [answer |-> [kind |-> "not_confident_enough", text |-> <<>>],
                    confidence |-> c]

Generated(response, c) == [answer |-> [kind |-> "generated", text |-> Strip(response)],
                           confidence |-> c]

ErrorAnswer == [answer |-> [kind |-> "error", text |-> <<>>], confidence |-> 0]

\* "\n\n".join(doc.page_content for doc in docs): the page contents in retrieved order
Context(das) == [i \in 1..Len(das) |-> das[i].doc]

Scores(das) == [i \in 1..Len(das) |-> das[i].score]

\* a gate that also declines at the threshold itself
MutBelowOrAtThreshold(c, thr) == c <= thr

\* the gate of query: canned answer below the threshold
BelowThreshold(c, thr) == c < thr

\* a query without the early return on an empty retrieval
MutQueryNoEmptyCheck(das, thr, searchRaises, l) ==
    IF searchRaises
      THEN [result |-> ErrorAnswer, chain_runs |-> <<>>]
    ELSE LET c == CalculateConfidence(Scores(das)) IN
         IF BelowThreshold(c, thr)
           THEN [result |-> NotConfident(c), chain_runs |-> <<>>]
         ELSE [result |-> IF l.raises THEN ErrorAnswer ELSE Generated(l.response, c),
               chain_runs |-> <<Context(das)>>]

\* query(question, confidence_threshold): the returned dictionary and the chain.run calls
QueryOutcome(das, thr, searchRaises, l) ==
    IF searchRaises
      THEN [result |-> ErrorAnswer, chain_runs |-> <<>>]
    ELSE IF das = <<>>
      THEN [result |-> NotEnoughInfo, chain_runs |-> <<>>]
    ELSE LET c == CalculateConfidence(Scores(das)) IN
         IF BelowThreshold(c, thr)
           THEN [result |-> NotConfident(c), chain_runs |-> <<>>]
         ELSE [result |-> IF l.raises THEN ErrorAnswer ELSE Generated(l.response, c),
               chain_runs |-> <<Context(das)>>]

Query ==
    /\ pending = "query"
    /\ pending' = "none"
    /\ op' = "query"
    /\ LET out == QueryOutcome(docs_and_scores, confidence_threshold, search_raises, llm) IN
         /\ result' = out.result
         /\ chain_runs' = out.chain_runs
    /\ UNCHANGED <<similarities, confidence, ragInputs, matchVars, draftVars, commandVars, docVars, message_reply>>

(***************************************************************************)
(* handle_message of SuperteamBot (src/app/bots/telegram_bot.py): the      *)
(* query with its default threshold, and the confidence indicator          *)
(***************************************************************************)
\* confidence_threshold: float = 0.6
DefaultThreshold == (6 * Scale) \div 10

\* an indicator that is moderate from the query's threshold on
MutIndicatorModerateFromThreshold(c) ==
    IF c >= (9 * Scale) \div 10 THEN "High"
    ELSE IF c >= DefaultThreshold THEN "Moderate"
    ELSE "Low"

\* the if / elif / else on confidence
ConfidenceIndicator(c) ==
    IF c >= (9 * Scale) \div 10 THEN "High"
    ELSE IF c >= (7 * Scale) \div 10 THEN "Moderate"
    ELSE "Low"

\* response = f"{answer}\n\n{confidence_indicator}"
MessageResponse(res) ==
    [answer |-> res.answer, indicators |-> <<ConfidenceIndicator(res.confidence)>>]

HandleMessage ==
    /\ pending = "message"
    /\ pending' = "none"
    /\ op' = "message"
    /\ LET out == QueryOutcome(docs_and_scores, confidence_threshold, search_raises, llm) IN
         /\ result' = out.result
         /\ chain_runs' = out.chain_runs
         /\ message_reply' = MessageResponse(out.result)
    /\ UNCHANGED <<similarities, confidence, ragInputs, matchVars, draftVars, commandVars, docVars>>

(***************************************************************************)
(* The tweet drafts of TwitterManager (src/app/bots/twitter_bot.py)        *)
(*                                                                         *)
(* The Application is built with its defaults, so updates are processed    *)
(* one after the other and every call runs to completion.  A draft keeps   *)
(* content, original_content, version and the engagement score, which      *)
(* suggestions and metrics both hold; the other suggestion texts are left  *)
(* out.                                                                    *)
(***************************************************************************)
\* highest version a draft is improved to
MaxVersion == 2

\* user ids
Users == {"u1", "u2"}

\* tweet texts, submitted or written by the optimizer
Texts == {"a", "b"}

\* engagement scores the optimizer reports
EngagementScores == {0, 5}

\* what optimize_tweet returns: the advisor's error result, its own error
\* result, or success with the optimized content and its suggestions
OptimizeOutcomes ==
    { [status |-> "error", message |-> "Failed to optimize content"],
      [status |-> "error", message |-> "Failed to optimize tweet"] }
    \cup [status : {"success"}, content : Texts, engagement_score : EngagementScores]

\* what client.update_status does
UpdateStatusOutcomes == {"posted", "TweepError"}

\* TwitterManager.__init__: no drafts
NoDrafts == [u \in {} |-> 0]

\* no call has been made
NoCall == [fn |-> "none", user |-> "", status |-> "", message |-> "", content |-> ""]

\* the return value of a call, with the call it answers
Returned(fn, u, status, message, content) ==
    [fn |-> fn, user |-> u, status |-> status, message |-> message, content |-> content]

NoDraftFound(fn, u) == Returned(fn, u, "error", "No draft found", "")

\* a store that keeps the draft a user already has
MutStoreIfAbsent(store, u, draft) ==
    [v \in DOMAIN store \cup {u} |-> IF v \in DOMAIN store THEN store[v] ELSE draft]

\* self.draft_tweets[user_id] = draft
StoreDraft(store, u, draft) ==
    [v \in DOMAIN store \cup {u} |-> IF v = u THEN draft ELSE store[v]]

\* a publish that empties the whole store
MutClearAllDrafts(store, u) == NoDrafts

\* a publish that leaves the draft in the store
MutKeepDraft(store, u) == store

\* del self.draft_tweets[user_id]
ClearDraft(store, u) == [v \in DOMAIN store \ {u} |-> store[v]]

\* a dictionary without keys
EmptyDict == [k \in {} |-> 0]

\* no add_document call: nothing to add, nothing added
NoDocument == [chunks |-> <<>>, given |-> FALSE, raises |-> FALSE]

EmptyStore == [texts |-> <<>>, metadatas |-> <<>>]

\* handle_message has not replied
NoMessage == [answer |-> [kind |-> "none", text |-> <<>>], indicators |-> <<>>]

MessageIdle == message_reply = NoMessage

\* add_document has not been used
DocIdle ==
    /\ document = NoDocument
    /\ caller_metadata = EmptyDict
    /\ vector_store = EmptyStore
    /\ added = FALSE

\* no tweet command has been sent
NoCommand == [name |-> "none", user |-> "", reply |-> ""]

\* the tweet commands have not been used
CommandIdle ==
    /\ admin_ids = {}
    /\ command = NoCommand

\* no improve_draft is waiting for optimize_tweet
NoneSuspended == [u \in Users |-> <<>>]

\* the draft manager has not been used
DraftIdle ==
    /\ draft_tweets = NoDrafts
    /\ client = FALSE
    /\ posted = <<>>
    /\ last = NoCall
    /\ submitted = ""
    /\ suspended = NoneSuspended
    /\ CommandIdle

\* create_draft(user_id, content) when optimize_tweet returns opt
CreateDraftOutcome(store, u, content, opt) ==
    IF opt.status # "success"
    THEN [store |-> store, posted |-> <<>>,
          result |-> Returned("create", u, "error", opt.message, "")]
    ELSE [store |-> StoreDraft(store, u,
                       [content |-> opt.content,
                        original_content |-> content,
                        version |-> 1,
                        engagement_score |-> opt.engagement_score]),
          posted |-> <<>>,
          result |-> Returned("create", u, "success", "Draft created successfully",
                              opt.content)]

\* preview_draft(user_id)
PreviewDraftOutcome(store, u) ==
    IF u \notin DOMAIN store
    THEN [store |-> store, posted |-> <<>>, result |-> NoDraftFound("preview", u)]
    ELSE [store |-> store, posted |-> <<>>,
          result |-> Returned("preview", u, "success", "", store[u].content)]

\* an improve_draft that also stores the optimizer's text as the content
MutImproveRewrites(store, u, opt) ==
    IF u \notin DOMAIN store
    THEN [store |-> store, posted |-> <<>>, result |-> NoDraftFound("improve", u)]
    ELSE IF opt.status = "success"
    THEN [store |-> StoreDraft(store, u,
                       [store[u] EXCEPT !.version = @ + 1,
                                        !.content = opt.content,
                                        !.engagement_score = opt.engagement_score]),
          posted |-> <<>>,
          result |-> Returned("improve", u, "success", "", "")]
    ELSE [store |-> store, posted |-> <<>>,
          result |-> Returned("improve", u, "error", opt.message, "")]

\* improve_draft(user_id) when optimize_tweet returns opt
ImproveDraftOutcome(store, u, opt) ==
    IF u \notin DOMAIN store
    THEN [store |-> store, posted |-> <<>>, result |-> NoDraftFound("improve", u)]
    ELSE IF opt.status = "success"
    THEN [store |-> StoreDraft(store, u,
                       [store[u] EXCEPT !.version = @ + 1,
                                        !.engagement_score = opt.engagement_score]),
          posted |-> <<>>,
          result |-> Returned("improve", u, "success", "", "")]
    ELSE [store |-> store, posted |-> <<>>,
          result |-> Returned("improve", u, "error", opt.message, "")]

\* an update_draft without its check for an existing draft
MutUpdateWithoutCheck(store, u, new_content, opt) ==
    LET created == CreateDraftOutcome(store, u, new_content, opt) IN
    IF created.result.status = "success"
    THEN [store |-> [created.store EXCEPT ![u].version = @ + 1],
          posted |-> <<>>,
          result |-> [created.result EXCEPT !.fn = "update"]]
    ELSE [store |-> created.store, posted |-> <<>>,
          result |-> Returned("update", u, "error", "Failed to update draft", "")]

\* update_draft(user_id, new_content) when optimize_tweet returns opt: the
\* draft is created anew and the version of the new draft is incremented
UpdateDraftOutcome(store, u, new_content, opt) ==
    IF u \notin DOMAIN store
    THEN [store |-> store, posted |-> <<>>, result |-> NoDraftFound("update", u)]
    ELSE LET created == CreateDraftOutcome(store, u, new_content, opt) IN
         IF created.result.status = "success"
         THEN [store |-> [created.store EXCEPT ![u].version = @ + 1],
               posted |-> <<>>,
               result |-> [created.result EXCEPT !.fn = "update"]]
         ELSE [store |-> created.store, posted |-> <<>>,
               result |-> Returned("update", u, "error", "Failed to update draft", "")]

\* publish_draft(user_id) when the final optimize_tweet returns opt and
\* update_status does upd.  The result of a successful optimize_tweet has no
\* key 'metrics', so reading final_check['metrics'] raises KeyError, which the
\* outer handler turns into the error result before anything is posted.
PublishDraftOutcome(store, has_client, u, opt, upd) ==
    IF u \notin DOMAIN store
    THEN [store |-> store, posted |-> <<>>, result |-> NoDraftFound("publish", u)]
    ELSE IF ~has_client
    THEN [store |-> ClearDraft(store, u), posted |-> <<>>,
          result |-> Returned("publish", u, "success",
                              "Tweet published (SIMULATION MODE)", store[u].content)]
    ELSE IF opt.status = "success"
    THEN [store |-> store, posted |-> <<>>,
          result |-> Returned("publish", u, "error", "Failed to publish tweet", "")]
    ELSE IF upd = "TweepError"
    THEN [store |-> store, posted |-> <<>>,
          result |-> Returned("publish", u, "error", "Failed to publish tweet: TweepError", "")]
    ELSE [store |-> ClearDraft(store, u), posted |-> <<store[u].content>>,
          result |-> Returned("publish", u, "success",
                              "Tweet published successfully", store[u].content)]

CreateDraft ==
    \E u \in Users, content \in Texts, opt \in OptimizeOutcomes :
        /\ LET out == CreateDraftOutcome(draft_tweets, u, content, opt) IN
             /\ draft_tweets' = out.store
             /\ posted' = out.posted
             /\ last' = out.result
        /\ submitted' = content
        /\ UNCHANGED <<client, suspended, pending, op, ragVars, matchVars, commandVars, docVars, message_reply>>

PreviewDraft ==
    \E u \in Users :
        /\ LET out == PreviewDraftOutcome(draft_tweets, u) IN
             /\ draft_tweets' = out.store
             /\ posted' = out.posted
             /\ last' = out.result
        /\ submitted' = ""
        /\ UNCHANGED <<client, suspended, pending, op, ragVars, matchVars, commandVars, docVars, message_reply>>

\* improve_draft, as long as the version stays within MaxVersion
ImproveDraft ==
    \E u \in Users, opt \in OptimizeOutcomes :
        /\ u \in DOMAIN draft_tweets => draft_tweets[u].version < MaxVersion
        /\ LET out == ImproveDraftOutcome(draft_tweets, u, opt) IN
             /\ draft_tweets' = out.store
             /\ posted' = out.posted
             /\ last' = out.result
        /\ submitted' = ""
        /\ UNCHANGED <<client, suspended, pending, op, ragVars, matchVars, commandVars, docVars, message_reply>>

UpdateDraft ==
    \E u \in Users, new_content \in Texts, opt \in OptimizeOutcomes :
        /\ LET out == UpdateDraftOutcome(draft_tweets, u, new_content, opt) IN
             /\ draft_tweets' = out.store
             /\ posted' = out.posted
             /\ last' = out.result
        /\ submitted' = new_content
        /\ UNCHANGED <<client, suspended, pending, op, ragVars, matchVars, commandVars, docVars, message_reply>>

PublishDraft ==
    \E u \in Users, opt \in OptimizeOutcomes, upd \in UpdateStatusOutcomes :
        /\ LET out == PublishDraftOutcome(draft_tweets, client, u, opt, upd) IN
             /\ draft_tweets' = out.store
             /\ posted' = out.posted
             /\ last' = out.result
        /\ submitted' = ""
        /\ UNCHANGED <<client, suspended, pending, op, ragVars, matchVars, commandVars, docVars, message_reply>>

(***************************************************************************)
(* improve_draft as a coroutine: it reads the user's draft, awaits         *)
(* optimize_tweet, and writes the draft it read when it resumes.  Other    *)
(* calls of the manager may run while it waits.                            *)
(***************************************************************************)
\* improve_draft up to its await: the check for a draft, and the draft it
\* holds; one improve_draft waits at a time
ImproveBegin ==
    \E u \in Users :
        /\ suspended = NoneSuspended
        /\ u \in DOMAIN draft_tweets
        /\ draft_tweets[u].version < MaxVersion
        /\ suspended' = [suspended EXCEPT ![u] = <<draft_tweets[u]>>]
        /\ UNCHANGED <<draft_tweets, client, posted, last, submitted, pending, op,
                       ragVars, matchVars, commandVars, docVars, message_reply>>

\* improve_draft after its await, when optimize_tweet returns opt: the held
\* draft is updated and assigned to self.draft_tweets[user_id]
ImproveResumeOutcome(store, u, draft, opt) ==
    IF opt.status = "success"
    THEN [store |-> StoreDraft(store, u,
                       [draft EXCEPT !.version = @ + 1,
                                     !.engagement_score = opt.engagement_score]),
          posted |-> <<>>,
          result |-> Returned("improve", u, "success", "", "")]
    ELSE [store |-> store, posted |-> <<>>,
          result |-> Returned("improve", u, "error", opt.message, "")]

ImproveResume ==
    \E u \in Users, opt \in OptimizeOutcomes :
        /\ suspended[u] # <<>>
        /\ LET out == ImproveResumeOutcome(draft_tweets, u, suspended[u][1], opt) IN
             /\ draft_tweets' = out.store
             /\ posted' = out.posted
             /\ last' = out.result
        /\ submitted' = ""
        /\ suspended' = [suspended EXCEPT ![u] = <<>>]
        /\ UNCHANGED <<client, pending, op, ragVars, matchVars, commandVars, docVars,
                       message_reply>>

(***************************************************************************)
(* The tweet commands of SuperteamBot (src/app/bots/telegram_bot.py):      *)
(* /tweet and /update ask for a text first, every command then checks the  *)
(* sender against settings.admin_ids before it calls the manager.          *)
(***************************************************************************)
\* the text of a command: "" when context.args is empty
CommandTexts == Texts \cup {""}

\* the command replied without calling the manager
Skipped(store, text) ==
    [store |-> store, posted |-> <<>>, called |-> FALSE, result |-> NoCall, reply |-> text]

\* the command called the manager and replied with its result
Handled(out) ==
    [store |-> out.store, posted |-> out.posted, called |-> TRUE, result |-> out.result,
     reply |-> IF out.result.status = "success" THEN "success" ELSE out.result.message]

\* a /tweet that does not check the sender
MutTweetWithoutAdminCheck(store, admins, u, text, opt) ==
    IF text = "" THEN Skipped(store, "usage")
    ELSE Handled(CreateDraftOutcome(store, u, text, opt))

TweetCommandOutcome(store, admins, u, text, opt) ==
    IF text = "" THEN Skipped(store, "usage")
    ELSE IF u \notin admins THEN Skipped(store, "only admins")
    ELSE Handled(CreateDraftOutcome(store, u, text, opt))

PreviewCommandOutcome(store, admins, u) ==
    IF u \notin admins THEN Skipped(store, "only admins")
    ELSE Handled(PreviewDraftOutcome(store, u))

ImproveCommandOutcome(store, admins, u, opt) ==
    IF u \notin admins THEN Skipped(store, "only admins")
    ELSE Handled(ImproveDraftOutcome(store, u, opt))

UpdateCommandOutcome(store, admins, u, text, opt) ==
    IF text = "" THEN Skipped(store, "usage")
    ELSE IF u \notin admins THEN Skipped(store, "only admins")
    ELSE Handled(UpdateDraftOutcome(store, u, text, opt))

PublishCommandOutcome(store, admins, has_client, u, opt, upd) ==
    IF u \notin admins THEN Skipped(store, "only admins")
    ELSE Handled(PublishDraftOutcome(store, has_client, u, opt, upd))

TweetCommand ==
    \E u \in Users, text \in CommandTexts, opt \in OptimizeOutcomes :
        /\ LET out == TweetCommandOutcome(draft_tweets, admin_ids, u, text, opt) IN
             /\ draft_tweets' = out.store
             /\ posted' = out.posted
             /\ last' = IF out.called THEN out.result ELSE last
             /\ submitted' = IF out.called THEN text ELSE submitted
             /\ command' = [name |-> "tweet", user |-> u, reply |-> out.reply]
        /\ UNCHANGED <<client, suspended, admin_ids, pending, op, ragVars, matchVars, docVars, message_reply>>

PreviewCommand ==
    \E u \in Users :
        /\ LET out == PreviewCommandOutcome(draft_tweets, admin_ids, u) IN
             /\ draft_tweets' = out.store
             /\ posted' = out.posted
             /\ last' = IF out.called THEN out.result ELSE last
             /\ submitted' = IF out.called THEN "" ELSE submitted
             /\ command' = [name |-> "preview", user |-> u, reply |-> out.reply]
        /\ UNCHANGED <<client, suspended, admin_ids, pending, op, ragVars, matchVars, docVars, message_reply>>

\* /improve, as long as the version stays within MaxVersion
ImproveCommand ==
    \E u \in Users, opt \in OptimizeOutcomes :
        /\ u \in DOMAIN draft_tweets => draft_tweets[u].version < MaxVersion
        /\ LET out == ImproveCommandOutcome(draft_tweets, admin_ids, u, opt) IN
             /\ draft_tweets' = out.store
             /\ posted' = out.posted
             /\ last' = IF out.called THEN out.result ELSE last
             /\ submitted' = IF out.called THEN "" ELSE submitted
             /\ command' = [name |-> "improve", user |-> u, reply |-> out.reply]
        /\ UNCHANGED <<client, suspended, admin_ids, pending, op, ragVars, matchVars, docVars, message_reply>>

UpdateCommand ==
    \E u \in Users, text \in CommandTexts, opt \in OptimizeOutcomes :
        /\ LET out == UpdateCommandOutcome(draft_tweets, admin_ids, u, text, opt) IN
             /\ draft_tweets' = out.store
             /\ posted' = out.posted
             /\ last' = IF out.called THEN out.result ELSE last
             /\ submitted' = IF out.called THEN text ELSE submitted
             /\ command' = [name |-> "update", user |-> u, reply |-> out.reply]
        /\ UNCHANGED <<client, suspended, admin_ids, pending, op, ragVars, matchVars, docVars, message_reply>>

PublishCommand ==
    \E u \in Users, opt \in OptimizeOutcomes, upd \in UpdateStatusOutcomes :
        /\ LET out == PublishCommandOutcome(draft_tweets, admin_ids, client, u, opt, upd) IN
             /\ draft_tweets' = out.store
             /\ posted' = out.posted
             /\ last' = IF out.called THEN out.result ELSE last
             /\ submitted' = IF out.called THEN "" ELSE submitted
             /\ command' = [name |-> "publish", user |-> u, reply |-> out.reply]
        /\ UNCHANGED <<client, suspended, admin_ids, pending, op, ragVars, matchVars, docVars, message_reply>>

(***************************************************************************)
(* add_document of EnhancedRAGSystem (src/app/core/rag.py)                 *)
(*                                                                         *)
(* Dictionaries are objects: chunk_metadata is a list of references into a *)
(* heap, object 0 being the caller's dictionary, so that a dictionary      *)
(* referenced twice is written twice.                                      *)
(***************************************************************************)
\* most chunks the splitter cuts a document into
MaxChunks == 3

\* chunk texts
ChunkTexts == {"c", "d"}

\* d[k] = v
Put(d, k, v) == [x \in DOMAIN d \cup {k} |-> IF x = k THEN v ELSE d[x]]

\* metadata dictionaries a caller passes
MetadataDicts ==
    { EmptyDict,
      Put(EmptyDict, "source", "upload"),
      Put(Put(EmptyDict, "source", "upload"), "chunk_index", 9) }

\* [{}] * n: n references to one dictionary
SharedDict(n) == [i \in 1..n |-> 1]

\* [metadata.copy() for _ in chunks]: one copy per chunk
Copies(n) == [i \in 1..n |-> i]

\* `if metadata:` is false for None and for the empty dictionary
Truthy(given, metadata) == given /\ DOMAIN metadata # {}

\* chunk_metadata before the loop: the references, and the heap they point into
ChunkMetadata(n, given, metadata) ==
    IF Truthy(given, metadata)
    THEN [refs |-> Copies(n), heap |-> [o \in 0..n |-> metadata]]
    ELSE [refs |-> SharedDict(n),
          heap |-> [o \in 0..n |-> IF o = 0 THEN metadata ELSE EmptyDict]]

\* for i, meta in enumerate(chunk_metadata), from the i-th reference on
RECURSIVE AddChunkIndex(_, _, _)
AddChunkIndex(heap, refs, i) ==
    IF i > Len(refs)
    THEN heap
    ELSE AddChunkIndex(
             [heap EXCEPT ![refs[i]] =
                 Put(Put(@, "chunk_index", i - 1), "total_chunks", Len(refs))],
             refs, i + 1)

\* add_document(content, metadata) when split_text returns chunks and add_texts
\* raises or not
AddDocumentOutcome(chunks, given, metadata, raises) ==
    LET n == Len(chunks)
        before == ChunkMetadata(n, given, metadata)
        heap == AddChunkIndex(before.heap, before.refs, 1)
    IN [added |-> ~raises,
        store |-> IF raises
                  THEN EmptyStore
                  ELSE [texts |-> chunks,
                        metadatas |-> [i \in 1..n |-> heap[before.refs[i]]]],
        caller_metadata |-> heap[0]]

AddDocument ==
    /\ pending = "add"
    /\ pending' = "none"
    /\ op' = "add"
    /\ LET out == AddDocumentOutcome(document.chunks, document.given,
                                      caller_metadata, document.raises) IN
         /\ added' = out.added
         /\ vector_store' = out.store
         /\ caller_metadata' = out.caller_metadata
    /\ UNCHANGED <<document, ragVars, matchVars, draftVars, commandVars, message_reply>>

(***************************************************************************)
(* Specification of the RAG component: one call on any input               *)
(***************************************************************************)
NoReply == [kind |-> "none", skills |-> <<>>, entries |-> <<>>, keyboard |-> <<>>]

\* the skill matcher has not been used
MatchIdle ==
    /\ members_db = <<>>
    /\ args = <<>>
    /\ matches = <<>>
    /\ reply = NoReply
    /\ more_skills = <<>>
    /\ more_matches = <<>>
    /\ more_reply = NoReply

NoLlm == [raises |-> TRUE, response |-> <<>>]

InitScore ==
    /\ pending = "score"
    /\ similarities \in SeqsUpTo(Sims, MaxSims)
    /\ docs_and_scores = <<>>
    /\ confidence_threshold = 0
    /\ search_raises = FALSE
    /\ llm = NoLlm

InitQuery ==
    /\ pending = "query"
    /\ similarities = <<>>
    /\ docs_and_scores \in SeqsUpTo([doc : PageContents, score : Sims], TopK)
    /\ confidence_threshold \in Thresholds
    /\ search_raises \in BOOLEAN
    /\ llm \in LlmOutcomes

InitRag ==
    /\ op = "init"
    /\ MatchIdle
    /\ DraftIdle
    /\ DocIdle
    /\ MessageIdle
    /\ confidence = 0
    /\ chain_runs = <<>>
    /\ result = NoResult
    /\ (InitScore \/ InitQuery)

NextRag == Score \/ Query

SpecRag == InitRag /\ [][NextRag]_vars

(***************************************************************************)
(* Skill matcher: strings                                                  *)
(***************************************************************************)
Comma == 44

\* the callback prefix "more_members_", written as one code that no skill contains
MoreMembersPrefix == <<0>>

\* str.lower() on one character code (ASCII)
LowerChar(c) == IF c >= 65 /\ c <= 90 THEN c + 32 ELSE c

\* a lower() that leaves the string as it is
MutLowerIdentity(s) == s

\* str.lower()
Lower(s) == [i \in 1..Len(s) |-> LowerChar(s[i])]

LowerAll(strs) == [i \in 1..Len(strs) |-> Lower(strs[i])]

ToSet(s) == {s[i] : i \in 1..Len(s)}

RECURSIVE Join(_, _)
\* sep.join(strs)
Join(strs, sep) ==
    IF strs = <<>> THEN <<>>
    ELSE IF Len(strs) = 1 THEN strs[1]
    ELSE strs[1] \o <<sep>> \o Join(Tail(strs), sep)

RECURSIVE SplitFrom(_, _, _)
\* str.split(sep): cur is the piece read so far
SplitFrom(s, sep, cur) ==
    IF s = <<>> THEN <<cur>>
    ELSE IF Head(s) = sep THEN <<cur>> \o SplitFrom(Tail(s), sep, <<>>)
    ELSE SplitFrom(Tail(s), sep, Append(cur, Head(s)))

Split(s, sep) == SplitFrom(s, sep, <<>>)

IsPrefix(p, s) == Len(p) <= Len(s) /\ SubSeq(s, 1, Len(p)) = p

RECURSIVE RemoveAll(_, _)
\* s.replace(p, "")
RemoveAll(s, p) ==
    IF s = <<>> THEN <<>>
    ELSE IF IsPrefix(p, s) THEN RemoveAll(SubSeq(s, Len(p) + 1, Len(s)), p)
    ELSE <<Head(s)>> \o RemoveAll(Tail(s), p)

RECURSIVE LexLess(_, _)
\* a < b for Python strings: by code point, a proper prefix first
LexLess(a, b) ==
    IF b = <<>> THEN FALSE
    ELSE IF a = <<>> THEN TRUE
    ELSE IF Head(a) # Head(b) THEN Head(a) < Head(b)
    ELSE LexLess(Tail(a), Tail(b))

RECURSIVE Sorted(_)
\* sorted(a set of strings)
Sorted(S) ==
    IF S = {} THEN <<>>
    ELSE LET least == CHOOSE x \in S : \A y \in S \ {x} : LexLess(x, y)
         IN  <<least>> \o Sorted(S \ {least})

(***************************************************************************)
(* Skill matcher: matching and ranking                                     *)
(***************************************************************************)
\* dict.get(key, default)
Get(m, key, default) == IF key \in DOMAIN m THEN m[key] ELSE default

\* [skill.lower() for skill in member.get('skills', [])]
MemberSkills(m) == LowerAll(Get(m, "skills", <<>>))

\* set(skills) & set(member_skills)
MatchingSkills(skills, m) == ToSet(skills) \cap ToSet(MemberSkills(m))

\* a match entry that counts the member's matching list entries, duplicates included
MutMatchCountsDuplicates(i, m, ms) ==
    [member |-> i, matching_skills |-> ms,
     match_count |-> Cardinality({k \in 1..Len(Get(m, "skills", <<>>)) :
                                     Lower(m.skills[k]) \in ms})]

\* the dictionary appended to matches; the member is referred to by its roster index
MatchEntry(i, m, ms) ==
    [member |-> i, matching_skills |-> ms, match_count |-> Cardinality(ms)]

RECURSIVE CollectMatches(_, _, _)
\* the loop over members_db, from roster index i on
CollectMatches(db, skills, i) ==
    IF i > Len(db) THEN <<>>
    ELSE LET ms == MatchingSkills(skills, db[i])
         IN  (IF ms # {} THEN <<MatchEntry(i, db[i], ms)>> ELSE <<>>)
                 \o CollectMatches(db, skills, i + 1)

RECURSIVE MutInsertBeforeTies(_, _)
\* an insertion that puts x before the entries of equal count
MutInsertBeforeTies(sorted, x) ==
    IF sorted = <<>> THEN <<x>>
    ELSE IF Head(sorted).match_count > x.match_count
      THEN <<Head(sorted)>> \o MutInsertBeforeTies(Tail(sorted), x)
    ELSE <<x>> \o sorted

RECURSIVE InsertByCount(_, _)
\* x goes behind every entry whose count is at least its own
InsertByCount(sorted, x) ==
    IF sorted = <<>> THEN <<x>>
    ELSE IF Head(sorted).match_count >= x.match_count
      THEN <<Head(sorted)>> \o InsertByCount(Tail(sorted), x)
    ELSE <<x>> \o sorted

RECURSIVE SortFrom(_, _)
SortFrom(sorted, rest) ==
    IF rest = <<>> THEN sorted
    ELSE SortFrom(InsertByCount(sorted, Head(rest)), Tail(rest))

\* matches.sort(key=lambda x: x['match_count'], reverse=True): stable, descending
SortByMatchCount(ms) == SortFrom(<<>>, ms)

\* the skills of the fallback without lower-casing
MutAllSkillsAsStored(db) ==
    UNION {ToSet(Get(db[i], "skills", <<>>)) : i \in 1..Len(db)}

\* all_skills: the lower-cased skills of every member
AllSkills(db) == UNION {ToSet(MemberSkills(db[i])) : i \in 1..Len(db)}

\* matches[lo-1:hi] of a Python slice, 1-based and clipped to the list
Slice(s, lo, hi) == SubSeq(s, lo, IF hi < Len(s) THEN hi ELSE Len(s))

\* member['name'] or member['projects'] raises KeyError for one of the listed entries
RenderRaises(db, shown) ==
    \E k \in 1..Len(shown) : ~({"name", "projects"} \subseteq DOMAIN db[shown[k].member])

\* a search that stores the lower-cased skills back into the records
MutRosterLowerCased(db) ==
    [i \in 1..Len(db) |->
        IF "skills" \in DOMAIN db[i]
        THEN [db[i] EXCEPT !.skills = LowerAll(@)]
        ELSE db[i]]

\* self.members_db after a search: the handlers read it through member.get and
\* build fresh sets and lists, and assign neither the list nor a record
RosterAfterSearch(db) == db

\* an entry that shows a member without an availability field as not available
MutRenderDefaultUnavailable(db, idx, match) ==
    LET m == db[match.member] IN
    [idx |-> idx,
     member |-> match.member,
     name |-> m.name,
     matching_skills |-> match.matching_skills,
     projects |-> m.projects,
     available |-> Get(m, "availability", FALSE),
     telegram |-> Get(m, "telegram_id", "N/A"),
     twitter |-> Get(m, "twitter_handle", "N/A")]

\* one numbered entry of a reply
RenderEntry(db, idx, match) ==
    LET m == db[match.member] IN
    [idx |-> idx,
     member |-> match.member,
     name |-> m.name,
     matching_skills |-> match.matching_skills,
     projects |-> m.projects,
     available |-> Get(m, "availability", TRUE),
     telegram |-> Get(m, "telegram_id", "N/A"),
     twitter |-> Get(m, "twitter_handle", "N/A")]

\* the entries of a page, numbered from first
RenderPage(db, shown, first) ==
    [k \in 1..Len(shown) |-> RenderEntry(db, first + k - 1, shown[k])]

Usage == [kind |-> "usage", skills |-> <<>>, entries |-> <<>>, keyboard |-> <<>>]

NoMatch(db) ==
    [kind |-> "no_match", skills |-> Sorted(AllSkills(db)), entries |-> <<>>,
     keyboard |-> <<>>]

Raised == [kind |-> "raised", skills |-> <<>>, entries |-> <<>>, keyboard |-> <<>>]

NoAdditional ==
    [kind |-> "no_additional", skills |-> <<>>, entries |-> <<>>, keyboard |-> <<>>]

\* the first page: ranks 1..3, and the button when more than 3 members match
FirstPage(db, ranked, search_skills) ==
    IF RenderRaises(db, Slice(ranked, 1, 3)) THEN Raised
    ELSE [kind |-> "matches", skills |-> <<>>,
          entries |-> RenderPage(db, Slice(ranked, 1, 3), 1),
          keyboard |-> IF Len(ranked) > 3
                         THEN <<MoreMembersPrefix \o Join(search_skills, Comma)>>
                       ELSE <<>>]

\* a find_member without the usage reply for an empty argument list
MutFindNoUsage(db, a) ==
    LET search_skills == LowerAll(a)
        found == CollectMatches(db, search_skills, 1)
    IN  IF found = <<>> THEN [matches |-> <<>>, reply |-> NoMatch(db)]
        ELSE LET ranked == SortByMatchCount(found)
             IN  [matches |-> ranked, reply |-> FirstPage(db, ranked, search_skills)]

\* find_member: the ranked matches and the reply
FindMemberOutcome(db, a) ==
    IF a = <<>> THEN [matches |-> <<>>, reply |-> Usage]
    ELSE LET search_skills == LowerAll(a)
             found == CollectMatches(db, search_skills, 1)
         IN  IF found = <<>> THEN [matches |-> <<>>, reply |-> NoMatch(db)]
             ELSE LET ranked == SortByMatchCount(found)
                  IN  [matches |-> ranked, reply |-> FirstPage(db, ranked, search_skills)]

FindMember ==
    /\ pending = "find"
    /\ op' = "find"
    /\ LET out == FindMemberOutcome(members_db, args) IN
         /\ matches' = out.matches
         /\ reply' = out.reply
         /\ pending' = IF out.reply.keyboard # <<>> THEN "callback" ELSE "none"
    /\ members_db' = RosterAfterSearch(members_db)
    /\ UNCHANGED <<args, more_skills, more_matches, more_reply, ragVars, draftVars, commandVars, docVars, message_reply>>

\* handle_callback on the button's data: the skill list handed to show_more_members
CallbackSkills(data) == Split(RemoveAll(data, MoreMembersPrefix), Comma)

\* a show_more_members that treats exactly three matches as having a second page
MutShowMoreFromThree(db, skills) ==
    LET ranked == SortByMatchCount(CollectMatches(db, skills, 1)) IN
    [matches |-> ranked,
     reply |-> IF Len(ranked) < 3 THEN NoAdditional
               ELSE [kind |-> "more", skills |-> <<>>,
                     entries |-> RenderPage(db, Slice(ranked, 4, 6), 4),
                     keyboard |-> <<>>]]

\* show_more_members: the ranked matches and the reply
ShowMoreOutcome(db, skills) ==
    LET ranked == SortByMatchCount(CollectMatches(db, skills, 1)) IN
    [matches |-> ranked,
     reply |-> IF Len(ranked) <= 3 THEN NoAdditional
               ELSE IF RenderRaises(db, Slice(ranked, 4, 6)) THEN Raised
               ELSE [kind |-> "more", skills |-> <<>>,
                     entries |-> RenderPage(db, Slice(ranked, 4, 6), 4),
                     keyboard |-> <<>>]]

\* the user presses "Show More Members": handle_callback, then show_more_members
HandleCallback ==
    /\ pending = "callback"
    /\ pending' = "none"
    /\ op' = "more"
    /\ IsPrefix(MoreMembersPrefix, reply.keyboard[1])
    /\ more_skills' = CallbackSkills(reply.keyboard[1])
    /\ LET out == ShowMoreOutcome(members_db, more_skills') IN
         /\ more_matches' = out.matches
         /\ more_reply' = out.reply
    /\ members_db' = RosterAfterSearch(members_db)
    /\ UNCHANGED <<args, matches, reply, ragVars, draftVars, commandVars, docVars, message_reply>>

(***************************************************************************)
(* Specification of the skill matcher: one /find on any roster, and the    *)
(* button press that may follow it                                         *)
(***************************************************************************)
\* longest roster
MaxRoster == 5

\* most arguments of one /find
MaxArgs == 2

\* member records with the skills "R","d" / "r","R" / "d"
MemberKinds ==
    { [name |-> "A", projects |-> <<"p">>, skills |-> << <<82>>, <<100>> >>],
      [name |-> "B", projects |-> <<>>, skills |-> << <<114>>, <<82>> >>,
       availability |-> FALSE],
      [name |-> "C", projects |-> <<>>, skills |-> << <<100>> >>, telegram_id |-> "c"] }

\* words of a /find: "r", "R", "d" and "x,d"
Words == { <<114>>, <<82>>, <<100>>, <<120, Comma, 100>> }

RagIdle ==
    /\ similarities = <<>>
    /\ confidence = 0
    /\ docs_and_scores = <<>>
    /\ confidence_threshold = 0
    /\ search_raises = FALSE
    /\ llm = NoLlm
    /\ chain_runs = <<>>
    /\ result = NoResult

InitMatch ==
    /\ pending = "find"
    /\ op = "init"
    /\ RagIdle
    /\ DocIdle
    /\ MessageIdle
    /\ DraftIdle
    /\ members_db \in SeqsUpTo(MemberKinds, MaxRoster)
    /\ args \in SeqsUpTo(Words, MaxArgs)
    /\ matches = <<>>
    /\ reply = NoReply
    /\ more_skills = <<>>
    /\ more_matches = <<>>
    /\ more_reply = NoReply

NextMatch == FindMember \/ HandleCallback

SpecMatch == InitMatch /\ [][NextMatch]_vars

(***************************************************************************)
(* Specification of show_more_members on its own: the callback data of any *)
(* button the chat still shows, whatever roster it was made for            *)
(***************************************************************************)
\* show_more_members(message, skills) on the skill list of such a button
ShowMoreMembers ==
    /\ pending = "more"
    /\ pending' = "none"
    /\ op' = "more"
    /\ LET out == ShowMoreOutcome(members_db, more_skills) IN
         /\ more_matches' = out.matches
         /\ more_reply' = out.reply
    /\ members_db' = RosterAfterSearch(members_db)
    /\ UNCHANGED <<args, matches, reply, more_skills, ragVars, draftVars, commandVars, docVars, message_reply>>

\* most skills in the callback data
MaxPieces == 2

\* the skills a button can carry: "r", "d", "x"
Pieces == { <<114>>, <<100>>, <<120>> }

InitMore ==
    /\ pending = "more"
    /\ op = "init"
    /\ RagIdle
    /\ DocIdle
    /\ MessageIdle
    /\ DraftIdle
    /\ members_db \in SeqsUpTo(MemberKinds, MaxRoster)
    /\ args = <<>>
    /\ matches = <<>>
    /\ reply = NoReply
    /\ more_skills \in SeqsUpTo(Pieces, MaxPieces)
    /\ more_matches = <<>>
    /\ more_reply = NoReply

NextMore == ShowMoreMembers

SpecMore == InitMore /\ [][NextMore]_vars

(***************************************************************************)
(* Specification of the skill matcher on rosters whose records lack fields *)
(***************************************************************************)
\* longest roster of such records
MaxFieldRoster == 4

\* records with the skill "r": complete; without the optional fields; not available;
\* and records without skills, without name, without projects
FieldKinds ==
    { [name |-> "F", projects |-> <<"p">>, skills |-> << <<114>> >>,
       availability |-> TRUE, telegram_id |-> "t", twitter_handle |-> "w"],
      [name |-> "G", projects |-> <<>>, skills |-> << <<114>> >>],
      [name |-> "H", projects |-> <<>>, skills |-> << <<114>> >>, availability |-> FALSE],
      [name |-> "I", projects |-> <<>>],
      [projects |-> <<>>, skills |-> << <<114>> >>],
      [name |-> "K", skills |-> << <<114>> >>] }

\* the commands /find r and /find x
FieldArgs == { << <<114>> >>, << <<120>> >> }

InitFields ==
    /\ pending = "find"
    /\ op = "init"
    /\ RagIdle
    /\ DocIdle
    /\ MessageIdle
    /\ DraftIdle
    /\ members_db \in SeqsUpTo(FieldKinds, MaxFieldRoster)
    /\ args \in FieldArgs
    /\ matches = <<>>
    /\ reply = NoReply
    /\ more_skills = <<>>
    /\ more_matches = <<>>
    /\ more_reply = NoReply

SpecFields == InitFields /\ [][NextMatch]_vars

(***************************************************************************)
(* Specification of the draft manager: any sequence of calls               *)
(***************************************************************************)
\* _setup_twitter_client sets the client, or leaves None when tweepy raises
InitDraft ==
    /\ pending = "none"
    /\ op = "init"
    /\ RagIdle
    /\ DocIdle
    /\ MessageIdle
    /\ MatchIdle
    /\ draft_tweets = NoDrafts
    /\ client \in BOOLEAN
    /\ posted = <<>>
    /\ last = NoCall
    /\ submitted = ""
    /\ suspended = NoneSuspended
    /\ CommandIdle

NextDraft == CreateDraft \/ PreviewDraft \/ ImproveDraft \/ UpdateDraft \/ PublishDraft

SpecDraft == InitDraft /\ [][NextDraft]_vars

(***************************************************************************)
(* Specification of the tweet commands: any sequence of commands           *)
(***************************************************************************)
\* the admin lists that leave some user out; with every user an admin the
\* commands are the manager's calls of SpecDraft
AdminSets == { A \in SUBSET Users : A # Users }

InitCommands ==
    /\ pending = "none"
    /\ op = "init"
    /\ RagIdle
    /\ DocIdle
    /\ MessageIdle
    /\ MatchIdle
    /\ draft_tweets = NoDrafts
    /\ client \in BOOLEAN
    /\ posted = <<>>
    /\ last = NoCall
    /\ submitted = ""
    /\ suspended = NoneSuspended
    /\ admin_ids \in AdminSets
    /\ command = NoCommand

NextCommands ==
    TweetCommand \/ PreviewCommand \/ ImproveCommand \/ UpdateCommand \/ PublishCommand

SpecCommands == InitCommands /\ [][NextCommands]_vars

(***************************************************************************)
(* Specification of add_document: one call on any document                 *)
(***************************************************************************)
InitDoc ==
    /\ pending = "add"
    /\ op = "init"
    /\ RagIdle
    /\ MatchIdle
    /\ DraftIdle
    /\ document \in [chunks : SeqsUpTo(ChunkTexts, MaxChunks),
                      given : BOOLEAN,
                      raises : BOOLEAN]
    /\ caller_metadata \in (IF document.given THEN MetadataDicts ELSE {EmptyDict})
    /\ vector_store = EmptyStore
    /\ added = FALSE
    /\ MessageIdle

NextDoc == AddDocument

SpecDoc == InitDoc /\ [][NextDoc]_vars

(***************************************************************************)
(* Specification of handle_message: one message on any retrieval           *)
(***************************************************************************)
InitMessage ==
    /\ pending = "message"
    /\ op = "init"
    /\ MatchIdle
    /\ DraftIdle
    /\ DocIdle
    /\ MessageIdle
    /\ similarities = <<>>
    /\ confidence = 0
    /\ chain_runs = <<>>
    /\ result = NoResult
    /\ docs_and_scores \in SeqsUpTo([doc : PageContents, score : Sims], TopK)
    /\ confidence_threshold = DefaultThreshold
    /\ search_raises \in BOOLEAN
    /\ llm \in LlmOutcomes

NextMessage == HandleMessage

SpecMessage == InitMessage /\ [][NextMessage]_vars

(***************************************************************************)
(* Specification of the draft manager with improve_draft as a coroutine    *)
(***************************************************************************)
NextRace ==
    CreateDraft \/ PublishDraft \/ ImproveBegin \/ ImproveResume

SpecRace == InitDraft /\ [][NextRace]_vars

(***************************************************************************)
(* Properties of the RAG component                                         *)
(***************************************************************************)
\* the query retrieved at least one chunk and computed a confidence
QueryScored == op = "query" /\ ~search_raises /\ docs_and_scores # <<>>

QueryConfidence == CalculateConfidence(Scores(docs_and_scores))

\* C1: in query, a computed confidence below the threshold gives the canned
\* "not confident enough" answer with that confidence and no chain.run call; a
\* confidence at or above the threshold gives exactly one chain.run call on the
\* retrieved context, and the answer chain.run returns (stripped) comes back
\* together with that confidence.
C1_GateDecidesGeneration ==
    QueryScored =>
        /\ QueryConfidence < confidence_threshold =>
                /\ result.answer.kind = "not_confident_enough"
                /\ result.confidence = QueryConfidence
                /\ chain_runs = <<>>
        /\ QueryConfidence >= confidence_threshold =>
                /\ chain_runs = << [i \in 1..Len(docs_and_scores) |-> docs_and_scores[i].doc] >>
                /\ ~llm.raises =>
                        /\ result.answer.kind = "generated"
                        /\ result.answer.text = Strip(llm.response)
                        /\ result.confidence = QueryConfidence

\* the boundary case: a confidence equal to a positive threshold is answered
C1_Witness ==
    /\ QueryScored
    /\ confidence_threshold > 0
    /\ QueryConfidence = confidence_threshold
    /\ result.answer.kind = "generated"
    /\ Len(chain_runs) = 1

\* C2: the scorer returns 0.0 for the empty list, and a query whose retrieval
\* returns no chunks answers "not enough information" with confidence 0.0 and
\* never calls chain.run.
C2_EmptyInput ==
    /\ (op = "score" /\ similarities = <<>>) => confidence = 0
    /\ (op = "query" /\ ~search_raises /\ docs_and_scores = <<>>) =>
            /\ result.answer.kind = "not_enough_information"
            /\ result.confidence = 0
            /\ chain_runs = <<>>

\* an empty retrieval under the threshold 0.0, which a computed 0.0 would pass
C2_Witness ==
    /\ op = "query"
    /\ ~search_raises
    /\ docs_and_scores = <<>>
    /\ confidence_threshold = 0
    /\ ~llm.raises
    /\ result.answer.kind = "not_enough_information"

\* C3: the scorer on the one-element list [s] returns s * exp(-1); the weight of
\* the sole element is the smallest of the scheme, below 1.
C3_SingleSimilarity ==
    (op = "score" /\ Len(similarities) = 1) =>
        /\ confidence = (similarities[1] * Exp(-Scale)) \div Scale
        /\ Exp(-Scale) < Scale

C3_Witness ==
    /\ op = "score"
    /\ similarities = <<Scale>>
    /\ confidence = Exp(-Scale)
    /\ confidence > 0

\* the weight exp(lerp(-1, 0, (i-1)/(n-1))) of the i-th of n >= 2 entries
C4_Weight(i, n) == Exp(-Scale + ((i - 1) * Scale) \div (n - 1))

\* C4: for n >= 2 similarities the weights are applied in input order and strictly
\* increase with the index, from exp(-1) for the first entry to exp(0) = 1 for the
\* last, and the result is the arithmetic mean of the products similarity_i * w_i.
C4_WeightsIncrease ==
    (op = "score" /\ Len(similarities) >= 2) =>
        LET n == Len(similarities)
            w == Weights(n)
        IN  /\ \A i \in 1..n : w[i] = C4_Weight(i, n)
            /\ w[1] = Exp(-Scale)
            /\ w[n] = Scale
            /\ \A i \in 1..(n - 1) : w[i] < w[i + 1]
            /\ confidence =
                   SumSeq([i \in 1..n |-> (similarities[i] * C4_Weight(i, n)) \div Scale])
                       \div n

\* a best-first list whose last, worst entry carries the result
C4_Witness ==
    /\ op = "score"
    /\ similarities = <<0, 0, Scale>>
    /\ confidence = Scale \div 3

\* C5 as stated: the confidence of every similarity list lies in [0, 1]
C5_Original == op = "score" => (0 <= confidence /\ confidence <= Scale)

\* C5 amended: the confidence of a list whose similarities all lie in [0, 1] lies
\* in [0, 1]
C5_BoundedOnUnitInput ==
    (op = "score" /\ \A i \in 1..Len(similarities) :
                        0 <= similarities[i] /\ similarities[i] <= Scale) =>
        (0 <= confidence /\ confidence <= Scale)

C5_Witness ==
    /\ op = "score"
    /\ Len(similarities) >= 2
    /\ \A i \in 1..Len(similarities) : similarities[i] = Scale
    /\ 0 < confidence
    /\ confidence < Scale

(***************************************************************************)
(* Properties of the skill matcher                                         *)
(***************************************************************************)
Searched == op \in {"find", "more"}

MembersOf(ms) == {ms[k].member : k \in 1..Len(ms)}

RosterOrder(ms) == [k \in 1..Len(ms) |-> ms[k].member]

\* the lower-cased query skills that member i has, computed from the roster
CommonSkills(i) ==
    {Lower(args[k]) : k \in 1..Len(args)}
        \cap {Lower(members_db[i].skills[k]) : k \in 1..Len(members_db[i].skills)}

\* descending by match_count, ties in roster order
StablyRanked(ms) ==
    \A i, j \in 1..Len(ms) :
        i < j => \/ ms[i].match_count > ms[j].match_count
                 \/ /\ ms[i].match_count = ms[j].match_count
                    /\ ms[i].member < ms[j].member

\* C6: the ranking is a stable sort by match_count descending: a larger count
\* comes first, and members of equal count keep their roster order; on the roster
\* A[R,d], B[r,R], C[d] the query {r} ranks A, then B, and leaves C out.
C6_StableRanking ==
    /\ StablyRanked(matches)
    /\ StablyRanked(more_matches)
    /\ (op = "find" /\ Len(members_db) = 3 /\ Len(args) = 1
          /\ [i \in 1..3 |-> members_db[i].name] = <<"A", "B", "C">>
          /\ args[1] = <<114>>)
         => RosterOrder(matches) = <<1, 2>>

\* the sort moved a later member of larger count ahead of a tie kept in roster order
C6_Witness ==
    /\ op = "find"
    /\ RosterOrder(matches) = <<2, 1, 3>>
    /\ matches[1].match_count = 2
    /\ matches[2].match_count = 1
    /\ matches[3].match_count = 1

\* C7: a member is in the match list if and only if its lower-cased skills and the
\* query skills intersect, it is there once, and its match_count is the size of
\* that intersection, duplicates on either side counted once.
C7_MatchIffIntersect ==
    (Searched /\ args # <<>>) =>
        /\ MembersOf(matches) = {i \in 1..Len(members_db) : CommonSkills(i) # {}}
        /\ Cardinality(MembersOf(matches)) = Len(matches)
        /\ \A k \in 1..Len(matches) :
               /\ matches[k].matching_skills = CommonSkills(matches[k].member)
               /\ matches[k].match_count = Cardinality(CommonSkills(matches[k].member))

\* the query "r","R" against a member storing "r","R": one common skill
C7_Witness ==
    /\ op = "find"
    /\ args = << <<114>>, <<82>> >>
    /\ Len(matches) >= 1
    /\ members_db[matches[1].member].name = "B"
    /\ matches[1].match_count = 1

\* C8 as stated: show_more_members matches case-insensitively like find_member, and
\* works on the same set of matching members as the find_member that offered the
\* button.
C8_SameMatchesOnMore ==
    op = "more" =>
        /\ MembersOf(more_matches) = MembersOf(matches)
        /\ MembersOf(more_matches) = {i \in 1..Len(members_db) : CommonSkills(i) # {}}

\* C9 as stated: a search with no query skills gets the no-match fallback
C9_Original ==
    (op = "find" /\ args = <<>>) =>
        /\ matches = <<>>
        /\ reply.kind = "no_match"

\* C9 amended: a search with no query skills returns zero matches for every roster
\* and gets the usage prompt, with no skill listing and no button.
C9_EmptyQueryUsage ==
    (op = "find" /\ args = <<>>) =>
        /\ matches = <<>>
        /\ reply.kind = "usage"
        /\ reply.skills = <<>>
        /\ reply.entries = <<>>
        /\ reply.keyboard = <<>>

C9_Witness ==
    /\ op = "find"
    /\ args = <<>>
    /\ Len(members_db) >= 2
    /\ reply.kind = "usage"

\* C10: a non-empty query gets the fallback if and only if no member matches, and
\* the fallback lists the union of the roster's skills, lower-cased, each once, in
\* ascending order.
C10_NoMatchFallback ==
    (op = "find" /\ args # <<>>) =>
        /\ reply.kind = "no_match" <=> (\A i \in 1..Len(members_db) : CommonSkills(i) = {})
        /\ reply.kind = "no_match" =>
               /\ \A k \in 1..(Len(reply.skills) - 1) :
                      LexLess(reply.skills[k], reply.skills[k + 1])
               /\ \A k \in 1..Len(reply.skills) :
                      \A c \in 1..Len(reply.skills[k]) :
                          ~(reply.skills[k][c] >= 65 /\ reply.skills[k][c] <= 90)
               /\ \A i \in 1..Len(members_db) :
                      \A s \in 1..Len(members_db[i].skills) :
                          \E k \in 1..Len(reply.skills) :
                              reply.skills[k] = Lower(members_db[i].skills[s])
               /\ \A k \in 1..Len(reply.skills) :
                      \E i \in 1..Len(members_db) :
                          \E s \in 1..Len(members_db[i].skills) :
                              reply.skills[k] = Lower(members_db[i].skills[s])

\* a roster storing "R","d","r" answers an unmatched query with "d", "r"
C10_Witness ==
    /\ op = "find"
    /\ args # <<>>
    /\ reply.kind = "no_match"
    /\ reply.skills = << <<100>>, <<114>> >>
    /\ \E i \in 1..Len(members_db) : members_db[i].name = "B"

(***************************************************************************)
(* Properties of the pagination                                            *)
(***************************************************************************)
\* the members a reply lists, in order
Listed(r) == [k \in 1..Len(r.entries) |-> r.entries[k].member]

\* the numbers a reply gives its entries
Numbers(r) == [k \in 1..Len(r.entries) |-> r.entries[k].idx]

\* ranks lo..hi of find_member's ranking, clipped to its length
Ranks(lo, hi) ==
    LET top == IF hi < Len(matches) THEN hi ELSE Len(matches) IN
    [k \in 1..(IF top >= lo THEN top - lo + 1 ELSE 0) |-> matches[lo + k - 1].member]

\* C11: with 5 matching members the first page lists ranks 1-3 and the "more"
\* request that follows lists ranks 4-5 of that ranking, numbered 4 and 5, with
\* nothing further offered.
C11_FiveMatchesTwoPages ==
    (op = "more" /\ Len(matches) = 5) =>
        /\ Listed(reply) = Ranks(1, 3)
        /\ Numbers(reply) = <<1, 2, 3>>
        /\ more_reply.kind = "more"
        /\ Listed(more_reply) = Ranks(4, 5)
        /\ Numbers(more_reply) = <<4, 5>>
        /\ more_reply.keyboard = <<>>

\* C12: show_more_members never sends an empty page: it replies either with the
\* "no additional members" signal (when at most 3 members match) or with a page
\* of at least one member, and that signal is not the reply find_member gives to
\* a query that matched nothing.
C12_SignalOrPage ==
    op = "more" =>
        /\ \/ /\ more_reply.kind = "no_additional"
              /\ more_reply.entries = <<>>
              /\ Len(more_matches) <= 3
           \/ /\ more_reply.kind = "more"
              /\ Len(more_reply.entries) >= 1
              /\ Len(more_matches) > 3
        /\ more_reply # NoMatch(members_db)
        /\ more_reply # FindMemberOutcome(members_db, more_skills).reply

\* exactly three matches: nothing is left for a second page
C12_Witness ==
    /\ op = "more"
    /\ Len(more_matches) = 3
    /\ more_reply.kind = "no_additional"

\* the smaller of two numbers
Min(a, b) == IF a < b THEN a ELSE b

\* C13: for a ranking of m matches the first page lists exactly ranks 1..min(3,m)
\* in ranking order and offers the button if and only if m > 3; the "show more"
\* page lists exactly ranks 4..min(6,m) of that ranking, numbered from 4, and
\* repeats no member of the first page.
C13_PagesPartitionRanking ==
    /\ (op \in {"find", "more"} /\ matches # <<>>) =>
            /\ Listed(reply) = Ranks(1, 3)
            /\ Numbers(reply) = [k \in 1..Min(3, Len(matches)) |-> k]
            /\ reply.keyboard # <<>> <=> Len(matches) > 3
    /\ op = "more" =>
            /\ Listed(more_reply) = Ranks(4, 6)
            /\ Numbers(more_reply) = [k \in 1..(Min(6, Len(matches)) - 3) |-> k + 3]
            /\ ToSet(Listed(more_reply)) \cap ToSet(Listed(reply)) = {}

(***************************************************************************)
(* Properties of the skill matcher on incomplete records                   *)
(***************************************************************************)
\* C14: on rosters whose records may lack any field, find_member and
\* show_more_members always reply and never raise, and a record without skills
\* matches nothing.
C14_NeverRaises ==
    /\ reply.kind # "raised"
    /\ more_reply.kind # "raised"
    /\ \A k \in 1..Len(matches) : "skills" \in DOMAIN members_db[matches[k].member]

\* the entries of both pages
ShownEntries == ToSet(reply.entries) \cup ToSet(more_reply.entries)

\* C15: a listed member without availability is shown as available, one without
\* telegram_id or twitter_handle is shown with "N/A", a present field is shown as
\* it is, and a member is shown as not available only when its availability
\* field is present and false.
C15_OptionalFieldDefaults ==
    \A e \in ShownEntries :
        LET m == members_db[e.member] IN
        /\ "availability" \notin DOMAIN m => e.available = TRUE
        /\ "availability" \in DOMAIN m => e.available = m.availability
        /\ "telegram_id" \notin DOMAIN m => e.telegram = "N/A"
        /\ "telegram_id" \in DOMAIN m => e.telegram = m.telegram_id
        /\ "twitter_handle" \notin DOMAIN m => e.twitter = "N/A"
        /\ "twitter_handle" \in DOMAIN m => e.twitter = m.twitter_handle
        /\ e.available = FALSE =>
               ("availability" \in DOMAIN m /\ m.availability = FALSE)

\* both pages list a record without the optional fields, and the first page one
\* that is not available
C15_Witness ==
    /\ op = "more"
    /\ \E e \in ToSet(reply.entries) :
           /\ DOMAIN members_db[e.member] = {"name", "projects", "skills"}
           /\ e.available = TRUE /\ e.telegram = "N/A" /\ e.twitter = "N/A"
    /\ \E e \in ToSet(reply.entries) : e.available = FALSE
    /\ \E e \in ToSet(more_reply.entries) :
           /\ DOMAIN members_db[e.member] = {"name", "projects", "skills"}
           /\ e.available = TRUE /\ e.telegram = "N/A" /\ e.twitter = "N/A"

\* C16: no step of find_member, of the callback or of show_more_members changes
\* members_db: its order, its length and every member's fields stay as loaded.
C16_RosterImmutable == [][members_db' = members_db]_vars

\* both searches have run on a roster with upper-case skills
C16_Witness ==
    /\ op = "more"
    /\ Len(members_db) >= 4
    /\ \E i \in 1..Len(members_db) : LowerAll(members_db[i].skills) # members_db[i].skills

(***************************************************************************)
(* Properties of the draft manager                                         *)
(***************************************************************************)
\* the draft store is well-formed
DraftTypeOK ==
    /\ DOMAIN draft_tweets \subseteq Users
    /\ \A u \in DOMAIN draft_tweets :
           /\ draft_tweets[u].content \in Texts
           /\ draft_tweets[u].original_content \in Texts
           /\ draft_tweets[u].version \in 1..MaxVersion
           /\ draft_tweets[u].engagement_score \in EngagementScores

\* the calls that need a stored draft
NeedsDraft == {"preview", "improve", "update", "publish"}

\* C17: after a publish_draft that returns success the user has no stored
\* draft; a user without a draft stays without one, and gets 'No draft found'
\* from preview, improve, update and publish, until a create_draft for that
\* user; without a Twitter client, publish_draft of an existing draft returns
\* success with the stored content.
C17_PublishRemovesDraft ==
    [][ /\ (last'.fn = "publish" /\ last'.status = "success") =>
               last'.user \notin DOMAIN draft_tweets'
        /\ \A u \in Users \ DOMAIN draft_tweets :
               /\ (last'.user = u /\ last'.fn \in NeedsDraft) =>
                      (last'.status = "error" /\ last'.message = "No draft found")
               /\ ~(last'.user = u /\ last'.fn = "create") =>
                      u \notin DOMAIN draft_tweets'
        /\ (~client /\ last'.fn = "publish" /\ last'.user \in DOMAIN draft_tweets) =>
               /\ last'.status = "success"
               /\ last'.content = draft_tweets[last'.user].content
      ]_vars

\* a publish has succeeded in simulation mode
C17_Witness ==
    /\ ~client
    /\ last.fn = "publish"
    /\ last.status = "success"
    /\ last.content \in Texts
    /\ last.user \notin DOMAIN draft_tweets

\* C18: a successful update_draft for a user whose stored draft had version v
\* leaves the stored draft with the new content and version v + 1.
C18_UpdateIncrementsVersion ==
    [][ (last'.fn = "update" /\ last'.status = "success") =>
            /\ draft_tweets'[last'.user].content = last'.content
            /\ draft_tweets'[last'.user].version = draft_tweets[last'.user].version + 1
      ]_vars

\* C19: with a Twitter client and an update_status that does not fail,
\* publish_draft of a stored draft posts exactly one tweet, returns success and
\* removes the draft, whatever the final optimization check returns.
C19_PublishPostsDraft ==
    [][ ( /\ client
          /\ last'.fn = "publish"
          /\ last'.user \in DOMAIN draft_tweets
          /\ last'.message # "Failed to publish tweet: TweepError" ) =>
            /\ Len(posted') = 1
            /\ last'.status = "success"
            /\ last'.user \notin DOMAIN draft_tweets'
      ]_vars

\* C20: preview_draft, improve_draft, update_draft and publish_draft for a user
\* without a stored draft return the error 'No draft found', post nothing and
\* leave the draft store as it was.
C20_NoDraftFound ==
    [][ (last'.fn \in NeedsDraft /\ last'.user \notin DOMAIN draft_tweets) =>
            /\ last'.status = "error"
            /\ last'.message = "No draft found"
            /\ posted' = <<>>
            /\ draft_tweets' = draft_tweets
      ]_vars

\* an update_draft found no draft while another user has one
C20_Witness ==
    /\ last.fn = "update"
    /\ last.message = "No draft found"
    /\ last.user \notin DOMAIN draft_tweets
    /\ draft_tweets # NoDrafts

\* C21: a create_draft that returns success leaves the user with a draft of
\* version 1 whose content is the returned content and whose original_content
\* is the submitted text, whatever draft the user had before, and adds no other
\* key; a create_draft that does not return success (the optimization failed)
\* leaves the store as it was.
C21_CreateStoresVersionOne ==
    [][ last'.fn = "create" =>
            IF last'.status = "success"
            THEN /\ DOMAIN draft_tweets' = DOMAIN draft_tweets \cup {last'.user}
                 /\ draft_tweets'[last'.user].version = 1
                 /\ draft_tweets'[last'.user].content = last'.content
                 /\ draft_tweets'[last'.user].original_content = submitted'
            ELSE /\ last'.status = "error"
                 /\ last'.message \in {"Failed to optimize content", "Failed to optimize tweet"}
                 /\ draft_tweets' = draft_tweets
      ]_vars

\* a draft has been created whose text the optimizer rewrote
C21_Witness ==
    /\ last.fn = "create"
    /\ last.status = "success"
    /\ last.content # submitted
    /\ draft_tweets[last.user].content = last.content
    /\ draft_tweets[last.user].original_content = submitted

\* C22: an improve_draft that returns success raises the stored draft's version
\* by exactly 1 and leaves its content and original_content as they were; an
\* improve_draft whose optimization fails leaves the draft store as it was.
C22_ImproveKeepsContent ==
    [][ (last'.fn = "improve" /\ last'.user \in DOMAIN draft_tweets) =>
            LET u == last'.user IN
            IF last'.status = "success"
            THEN /\ DOMAIN draft_tweets' = DOMAIN draft_tweets
                 /\ draft_tweets'[u].version = draft_tweets[u].version + 1
                 /\ draft_tweets'[u].content = draft_tweets[u].content
                 /\ draft_tweets'[u].original_content = draft_tweets[u].original_content
            ELSE /\ last'.message \in {"Failed to optimize content", "Failed to optimize tweet"}
                 /\ draft_tweets' = draft_tweets
      ]_vars

\* a draft whose text the optimizer had rewritten has been improved
C22_Witness ==
    /\ last.fn = "improve"
    /\ last.status = "success"
    /\ draft_tweets[last.user].version = 2
    /\ draft_tweets[last.user].content # draft_tweets[last.user].original_content

\* C26: a create_draft, improve_draft, update_draft, preview_draft or
\* publish_draft for user u leaves the draft of every other user as it was:
\* its presence, content, version and metrics.
C26_DraftsIsolated ==
    [][ \A v \in Users \ {last'.user} :
            /\ v \in DOMAIN draft_tweets' <=> v \in DOMAIN draft_tweets
            /\ v \in DOMAIN draft_tweets => draft_tweets'[v] = draft_tweets[v]
      ]_vars

\* a user has published while another user's improved draft is stored
C26_Witness ==
    /\ last.fn = "publish"
    /\ last.status = "success"
    /\ \E v \in DOMAIN draft_tweets : v # last.user /\ draft_tweets[v].version = 2

\* C27: when an improve_draft that waits for optimize_tweet resumes after a
\* publish_draft has removed the user's draft, the user still has no stored
\* draft when improve_draft has finished.
C27_PublishedStaysGone ==
    [][ \A u \in Users :
            ( /\ suspended[u] # <<>>
              /\ suspended'[u] = <<>>
              /\ u \notin DOMAIN draft_tweets ) =>
                u \notin DOMAIN draft_tweets'
      ]_vars

(***************************************************************************)
(* Properties of the tweet commands                                        *)
(***************************************************************************)
\* C23: a /tweet, /preview, /improve, /update or /publish sent by a user who
\* is not in settings.admin_ids leaves the draft store as it was and posts no
\* tweet, and no draft is ever stored under the id of a user who is not an admin.
C23_OnlyAdmins ==
    [][ /\ command'.user \notin admin_ids =>
               /\ draft_tweets' = draft_tweets
               /\ posted' = <<>>
               /\ last' = last
        /\ DOMAIN draft_tweets' \subseteq admin_ids
      ]_vars

\* a user who is not an admin was refused /publish while an admin has a draft
C23_Witness ==
    /\ command.name = "publish"
    /\ command.user \notin admin_ids
    /\ command.reply = "only admins"
    /\ draft_tweets # NoDrafts

(***************************************************************************)
(* Properties of add_document                                              *)
(***************************************************************************)
\* C24: when add_document has added a document of n chunks, chunk i is stored
\* with chunk_index = i and total_chunks = n for every i in 0..n-1, whether or
\* not a metadata dictionary was supplied, and the caller's dictionary is as it
\* was.
C24_ChunkIndexPerChunk ==
    (op = "add" /\ added) =>
        /\ Len(vector_store.metadatas) = Len(document.chunks)
        /\ \A i \in 1..Len(document.chunks) :
               /\ vector_store.metadatas[i].chunk_index = i - 1
               /\ vector_store.metadatas[i].total_chunks = Len(document.chunks)
        /\ "total_chunks" \notin DOMAIN caller_metadata

(***************************************************************************)
(* Properties of handle_message                                            *)
(***************************************************************************)
\* C25: every reply of handle_message carries exactly one indicator: High when
\* the confidence is at least 0.9, Moderate from 0.7 up to 0.9, Low otherwise;
\* the 'not confident enough' reply and the error reply are labelled Low, and
\* a generated answer is labelled Low exactly when its confidence is in [0.6, 0.7).
C25_OneIndicator ==
    op = "message" =>
        LET c == result.confidence
            kind == message_reply.answer.kind
            High == (9 * Scale) \div 10
            Moderate == (7 * Scale) \div 10
        IN /\ message_reply.answer = result.answer
           /\ Len(message_reply.indicators) = 1
           /\ message_reply.indicators[1] = "High" <=> c >= High
           /\ message_reply.indicators[1] = "Moderate" <=> (Moderate <= c /\ c < High)
           /\ message_reply.indicators[1] = "Low" <=> c < Moderate
           /\ kind = "not_confident_enough" =>
                  (c < DefaultThreshold /\ message_reply.indicators[1] = "Low")
           /\ kind = "error" => (c = 0 /\ message_reply.indicators[1] = "Low")
           /\ kind = "generated" =>
                  /\ c >= DefaultThreshold
                  /\ message_reply.indicators[1] = "Low" <=> c < Moderate

\* a generated answer has been labelled Low
C25_Witness ==
    /\ op = "message"
    /\ message_reply.answer.kind = "generated"
    /\ message_reply.indicators = <<"Low">>
    /\ result.confidence > DefaultThreshold

====
